---------------------------- MODULE Spec2Model ----------------------------
(***************************************************************************)
(* A model of the bun-hono-api-starter request pipeline: the in-memory     *)
(* fixed-window rate limiter (middlewares/rateLimit.middlewares.ts), the   *)
(* token service (utils/genToken.ts), the auth and role gates              *)
(* (middlewares/auth.middlewares.ts), the User model and the user          *)
(* controllers.                                                            *)
(*                                                                         *)
(* Time is Date.now() in milliseconds.  Strings that the code inspects     *)
(* (emails, names, passwords) are sequences of one-character strings, so   *)
(* that trim, toLowerCase, length and the regular expressions are          *)
(* computed; opaque strings (header names, messages, IPs) are TLA+         *)
(* strings.                                                                *)
(***************************************************************************)
EXTENDS Integers, Sequences, FiniteSets, TLC

VARIABLES
  now,             \* Date.now(), epoch milliseconds
  ticks,           \* how many times the clock has advanced
  rateLimitStore,  \* rateLimit.middlewares.ts:10, Map<string, RateLimitEntry>
  limiter,         \* options of a limiter instance built by rateLimit(options)
  obs,             \* what the last call of that instance observed and did
  win,             \* per key: ordinal of the last request in its window
  users,           \* the User collection, users[i]._id = i
  tokens,          \* tokens the API has handed out and clients still hold
  pwSet,           \* per principal: the plaintext its password was last set to
  ctx,             \* the Hono context of the request in flight
  resp,            \* the response to the last finished request
  scen,            \* what the client has sent since the process started
  pending          \* concurrent requests: per slot, where the request stands

clockVars == <<now, ticks>>
limiterVars == <<limiter, obs, win>>
dbVars == <<users, tokens, pwSet>>
httpVars == <<ctx, resp, scen, pending>>
vars == <<now, ticks, rateLimitStore, limiter, obs, win, users, tokens, pwSet,
          ctx, resp, scen, pending>>

----------------------------------------------------------------------------
(* Bounds of the model *)

MaxTicks == 3          \* clock advances per behaviour
MaxAppTicks == 2       \* clock advances per behaviour, requests in flight
MaxClock == 2000000000 \* the clock stays in TLC's 32-bit integers
ClockStart == 1500     \* Date.now() when the process starts
MaxN == 2              \* largest max of an ad-hoc limiter instance
MaxOver == 2           \* requests sent to a key beyond its limiter's max
MaxUsers == 2          \* documents in the User collection
MaxTokens == 2         \* tokens clients keep
MaxRacers == 2         \* requests in flight at the same time
MaxHits == 3           \* requests sent while the cleanup timer runs
MaxLate == 1           \* one-millisecond steps of the clock beside the timer

----------------------------------------------------------------------------
(* Maps with a dynamic domain: JS Map, response headers, JSON objects *)

EmptyMap == [k \in {} |-> 0]

Put(m, k, v) == [x \in DOMAIN m \cup {k} |-> IF x = k THEN v ELSE m[x]]

Has(m, k) == k \in DOMAIN m

\* Math.ceil(a / d) for integers a and d > 0
Ceil_floor(a, d) == a \div d
Ceil(a, d) == -((-a) \div d)

Max0(a) == IF a > 0 THEN a ELSE 0

Range(f) == {f[x] : x \in DOMAIN f}

----------------------------------------------------------------------------
(* Rate limiter: middlewares/rateLimit.middlewares.ts *)

\* The cleanup and the request path share one test for "window has elapsed".
isExpired_never(entry, t) == FALSE
isExpired(entry, t) == entry.resetTime < t

\* Lines 54-57: the entry of a fresh window.
newEntry_noWindow(t, windowMs) == [count |-> 1, resetTime |-> t]
newEntry(t, windowMs) == [count |-> 1, resetTime |-> t + windowMs]

\* Line 62: the test that rejects.
overLimit_offByOne(count, max) == count >= max
overLimit_onlyNext(count, max) == count = max + 1
overLimit(count, max) == count > max

\* Lines 40-43: default keyGenerator.  req.xff is the x-forwarded-for header
\* split at commas with each item trimmed (<<>> when the header is absent),
\* req.realIp the x-real-ip header ("" when absent).
keyGenerator(req) ==
  IF Len(req.xff) > 0 /\ req.xff[1] # "" THEN req.xff[1]
  ELSE IF req.realIp # "" THEN req.realIp
  ELSE "unknown"

\* Line 48
limiterKey_perRoute(o, req) ==
  o.keyPrefix \o ":" \o req.route \o ":" \o keyGenerator(req)
limiterKey(o, req) == o.keyPrefix \o ":" \o keyGenerator(req)

\* Lines 46-80: one call of the middleware a limiter instance returns, at
\* Date.now() = t, on a context whose response headers so far are hdrs.
\* next = TRUE: control passes to next(); next = FALSE: HTTPException(429).
rateLimit_rejectedUncounted(o, store, req, hdrs, t) ==
  LET key == limiterKey(o, req)
      fresh == ~Has(store, key) \/ isExpired(store[key], t)
      entry == IF fresh THEN newEntry(t, o.windowMs)
               ELSE [store[key] EXCEPT !.count = @ + 1]
  IN IF ~fresh /\ overLimit(entry.count, o.max)
     THEN [store |-> store, next |-> FALSE, status |-> 429,
           message |-> o.message, headers |-> hdrs]
     ELSE [store |-> Put(store, key, entry), next |-> TRUE, status |-> 0,
           message |-> "", headers |-> hdrs]
rateLimit(o, store, req, hdrs, t) ==
  LET key == limiterKey(o, req)
      fresh == ~Has(store, key) \/ isExpired(store[key], t)
      entry == IF fresh THEN newEntry(t, o.windowMs)
               ELSE [store[key] EXCEPT !.count = @ + 1]
      store1 == Put(store, key, entry)
  IN IF ~fresh /\ overLimit(entry.count, o.max)
     THEN [store |-> store1, next |-> FALSE, status |-> 429,
           message |-> o.message,
           headers |->
             Put(Put(Put(Put(hdrs,
               "Retry-After", Ceil(entry.resetTime - t, 1000)),
               "X-RateLimit-Limit", o.max),
               "X-RateLimit-Remaining", 0),
               "X-RateLimit-Reset", Ceil(entry.resetTime, 1000))]
     ELSE [store |-> store1, next |-> TRUE, status |-> 0,
           message |-> "",
           headers |->
             Put(Put(Put(hdrs,
               "X-RateLimit-Limit", o.max),
               "X-RateLimit-Remaining", Max0(o.max - store1[key].count)),
               "X-RateLimit-Reset", Ceil(store1[key].resetTime, 1000))]

\* Lines 86-91
strictRateLimit_sharedPrefix ==
  [windowMs |-> 15 * 60 * 1000, max |-> 5, keyPrefix |-> "standard",
   message |-> "Too many attempts, please try again after 15 minutes."]
strictRateLimit ==
  [windowMs |-> 15 * 60 * 1000, max |-> 5, keyPrefix |-> "strict",
   message |-> "Too many attempts, please try again after 15 minutes."]

\* Lines 96-101
standardRateLimit ==
  [windowMs |-> 60 * 1000, max |-> 60, keyPrefix |-> "standard",
   message |-> "Too many requests, please slow down."]

\* Lines 34-44: rateLimit(options) with the defaults for message and keyPrefix
adHocLimiter(max, windowMs) ==
  [windowMs |-> windowMs, max |-> max, keyPrefix |-> "default",
   message |-> "Too many requests, please try again later."]

\* Line 20: the period of the cleanup timer
SweepEveryMs == 60000

\* Lines 13-19: the callback of the cleanup timer, run at Date.now() = t.
\* It deletes the entries whose resetTime is less than t.
sweep_nonStrict(store, t) ==
  [k \in {x \in DOMAIN store : ~(store[x].resetTime <= t)} |-> store[k]]
sweep(store, t) ==
  [k \in {x \in DOMAIN store : ~(store[x].resetTime < t)} |-> store[k]]

----------------------------------------------------------------------------
(* Strings the code inspects: sequences of one-character strings *)

Whitespace == {" "}

UpperAlpha ==
  <<"A","B","C","D","E","F","G","H","I","J","K","L","M",
    "N","O","P","Q","R","S","T","U","V","W","X","Y","Z">>

LowerAlpha ==
  <<"a","b","c","d","e","f","g","h","i","j","k","l","m",
    "n","o","p","q","r","s","t","u","v","w","x","y","z">>

lowerChar(c) ==
  IF \E i \in 1..26 : UpperAlpha[i] = c
  THEN LowerAlpha[CHOOSE i \in 1..26 : UpperAlpha[i] = c]
  ELSE c

\* String.prototype.toLowerCase
toLowerCase(s) == [i \in 1..Len(s) |-> lowerChar(s[i])]

RECURSIVE trimStart(_)
trimStart(s) ==
  IF Len(s) > 0 /\ s[1] \in Whitespace THEN trimStart(Tail(s)) ELSE s

RECURSIVE trimEnd(_)
trimEnd(s) ==
  IF Len(s) > 0 /\ s[Len(s)] \in Whitespace
  THEN trimEnd(SubSeq(s, 1, Len(s) - 1))
  ELSE s

\* String.prototype.trim
trim(s) == trimEnd(trimStart(s))

\* email.toLowerCase().trim(), as the controllers normalise an email
normalizeEmail_asTyped(e) == trim(e)
normalizeEmail(e) == trim(toLowerCase(e))

\* [^\s@]+ over s[a..b]
isLocalPart(s, a, b) ==
  a <= b /\ \A k \in a..b : s[k] \notin Whitespace /\ s[k] # "@"

\* user.controllers.ts:34, /^[^\s@]+@[^\s@]+\.[^\s@]+$/.test(s)
emailRegex(s) ==
  \E i \in 1..Len(s) : \E j \in 1..Len(s) :
    /\ s[i] = "@"
    /\ s[j] = "."
    /\ isLocalPart(s, 1, i - 1)
    /\ isLocalPart(s, i + 1, j - 1)
    /\ isLocalPart(s, j + 1, Len(s))

\* models/User: match /.+\@.+\..+/ (unanchored)
schemaEmailMatch(s) ==
  \E i \in 1..Len(s) : \E j \in 1..Len(s) :
    s[i] = "@" /\ s[j] = "." /\ i >= 2 /\ j >= i + 2 /\ j < Len(s)

----------------------------------------------------------------------------
(* Credential store: Bun.password with bcrypt.  A password value records   *)
(* how many times bcrypt was applied to a text (0: the plaintext itself)   *)
(* and the salt of the outermost application.                              *)

Plain(text) == [layers |-> 0, salt |-> 0, text |-> text]

\* Bun.password.hash(pw, {algorithm: 'bcrypt', cost: 10})
passwordHash(pw, salt) == [layers |-> pw.layers + 1, salt |-> salt, text |-> pw.text]

\* Bun.password.verify(entered, stored): stored is bcrypt of the entered text
passwordVerify(entered, stored) == stored.layers = 1 /\ stored.text = entered

\* bcrypt draws a fresh salt: it differs from the salt of the hash replaced
freshSalt(old) == IF old = 1 THEN 2 ELSE 1

----------------------------------------------------------------------------
(* Token service: utils/genToken.ts over hono/jwt *)

JWT_SECRET == "server-secret"

\* hono/jwt sign: the signature binds the payload to the key
sign(payload, secret) ==
  [id |-> payload.id, iat |-> payload.iat, exp |-> payload.exp,
   sig |-> [key |-> secret, id |-> payload.id, iat |-> payload.iat,
            exp |-> payload.exp]]

\* hono/jwt verify at Date.now() = t: the signature must be the key's over
\* this payload, and exp must lie in the future (exp <= now is expired).
verify(token, secret, t) ==
  LET nowSec == t \div 1000
  IN /\ token.sig = [key |-> secret, id |-> token.id, iat |-> token.iat,
                     exp |-> token.exp]
     /\ ~(token.exp # 0 /\ token.exp <= nowSec)
     /\ ~(token.iat # 0 /\ nowSec < token.iat)

\* genToken.ts:11-16, the claims of a token minted at Date.now() = t
tokenClaims_oneDay(id, t) ==
  [id |-> id, iat |-> t \div 1000, exp |-> (t \div 1000) + 60 * 60 * 24]
tokenClaims(id, t) ==
  [id |-> id, iat |-> t \div 1000, exp |-> (t \div 1000) + 60 * 60 * 24 * 7]

\* 7 days in milliseconds, the steps of the clock that reach a token's expiry
TokenLifetimeMs == 60 * 60 * 24 * 7 * 1000

\* genToken.ts:9-17
genToken(id, t) == sign(tokenClaims(id, t), JWT_SECRET)

----------------------------------------------------------------------------
(* User model: models/User over mongoose.  A stored document is            *)
(* [_id, name, email, password, isAdmin]; a document in memory also knows  *)
(* whether it is new, which paths were modified, and holds password as     *)
(* <<value>> or <<>> (not selected).                                       *)

\* Query.select('-password') or none, then hydration
hydrate(d, withPassword) ==
  [_id |-> d._id, name |-> d.name, email |-> d.email, isAdmin |-> d.isAdmin,
   password |-> IF withPassword THEN <<d.password>> ELSE <<>>,
   isNew |-> FALSE, modified |-> {}]

\* User.findById(id): <<doc>> or <<>>
findById_orFirst(db, id) ==
  IF db = <<>> THEN <<>> ELSE <<db[IF id \in 1..Len(db) THEN id ELSE 1]>>
findById(db, id) == IF id \in 1..Len(db) THEN <<db[id]>> ELSE <<>>

\* User.findOne({email}), optionally with _id: {$ne: notId} (0: no such filter)
findOneByEmail(db, email, notId) ==
  LET hits == {i \in 1..Len(db) : db[i].email = email /\ i # notId}
  IN IF hits = {} THEN <<>> ELSE <<db[CHOOSE i \in hits : \A k \in hits : i <= k]>>

\* Document.toJSON(): the paths the document holds
toJSON(doc) ==
  LET base == [k \in {"_id", "name", "email", "isAdmin"} |->
                 CASE k = "_id" -> doc._id
                   [] k = "name" -> doc.name
                   [] k = "email" -> doc.email
                   [] OTHER -> doc.isAdmin]
  IN IF doc.password = <<>> THEN base ELSE Put(base, "password", doc.password[1])

\* Schema validators (lines 12-19) on the paths that are new or modified
validates(doc) ==
  LET checks(path) == doc.isNew \/ path \in doc.modified
  IN /\ checks("name") => Len(doc.name) > 0
     /\ checks("email") => (Len(doc.email) > 0 /\ schemaEmailMatch(doc.email))
     /\ checks("password") =>
          (doc.password # <<>> /\ Len(doc.password[1].text) >= 6)

\* Document.isModified(path); every path given to User.create is modified
isModified(doc, path) == path \in doc.modified

\* userSchema.pre('save'), lines 27-35
preSave_noHash(doc, salt) == doc
preSave(doc, salt) ==
  IF ~isModified(doc, "password")
  THEN doc
  ELSE [doc EXCEPT !.password = <<passwordHash(doc.password[1], salt)>>]

\* userSchema.methods.matchPassword, lines 22-25
matchPassword_any(doc, entered) == TRUE
matchPassword(doc, entered) == passwordVerify(entered, doc.password[1])

\* What the collection holds after the document is written: an insert for
\* a new document, otherwise $set of the modified paths.
persist_allPaths(db, doc) ==
  IF doc.isNew
  THEN Append(db, [_id |-> Len(db) + 1, name |-> doc.name, email |-> doc.email,
                   password |-> doc.password[1], isAdmin |-> doc.isAdmin])
  ELSE [db EXCEPT ![doc._id] =
          [_id |-> @._id, name |-> doc.name, email |-> doc.email,
           password |-> IF doc.password = <<>> THEN Plain(<<>>)
                        ELSE doc.password[1],
           isAdmin |-> doc.isAdmin]]
persist(db, doc) ==
  IF doc.isNew
  THEN Append(db, [_id |-> Len(db) + 1, name |-> doc.name, email |-> doc.email,
                   password |-> doc.password[1], isAdmin |-> doc.isAdmin])
  ELSE [db EXCEPT ![doc._id] =
          [_id |-> @._id,
           name |-> IF "name" \in doc.modified THEN doc.name ELSE @.name,
           email |-> IF "email" \in doc.modified THEN doc.email ELSE @.email,
           password |-> IF "password" \in doc.modified
                        THEN doc.password[1] ELSE @.password,
           isAdmin |-> IF "isAdmin" \in doc.modified
                       THEN doc.isAdmin ELSE @.isAdmin]]

\* The unique index on email
uniqueEmail(db, doc) ==
  \A i \in 1..Len(db) :
    (db[i].email = doc.email) => (~doc.isNew /\ i = doc._id)

\* Document.save(): validation, the pre-save hook, the write.  error is ""
\* or the name of the error thrown (none of them an HTTPException).
save(db, doc) ==
  LET old == IF doc.isNew THEN 0 ELSE db[doc._id].password.salt
      hashed == preSave(doc, freshSalt(old))
  IN IF ~validates(doc) THEN [db |-> db, error |-> "ValidationError"]
     ELSE IF ~uniqueEmail(db, hashed)
          THEN [db |-> db, error |-> "MongoServerError E11000"]
          ELSE [db |-> persist(db, hashed), error |-> ""]

\* Assignment to a path: mongoose marks it modified when the value changes
setPath(doc, path, value) ==
  CASE path = "name" ->
         IF doc.name = value THEN doc
         ELSE [doc EXCEPT !.name = value, !.modified = @ \cup {"name"}]
    [] path = "email" ->
         IF doc.email = value THEN doc
         ELSE [doc EXCEPT !.email = value, !.modified = @ \cup {"email"}]
    [] OTHER ->
         [doc EXCEPT !.password = <<Plain(value)>>,
                     !.modified = @ \cup {"password"}]

----------------------------------------------------------------------------
(* HTTP: requests, the Hono context, responses, the error handler *)

NoReq ==
  [route |-> "", xff |-> <<>>, realIp |-> "", auth |-> <<>>,
   body |-> EmptyMap, param |-> 0]

IdleCtx ==
  [active |-> FALSE, req |-> NoReq, chain |-> <<>>, pc |-> 0,
   headers |-> EmptyMap, user |-> <<>>, ran |-> <<>>]

NoResp ==
  [valid |-> FALSE, req |-> NoReq, status |-> 0, message |-> "",
   headers |-> EmptyMap, body |-> <<>>, ran |-> <<>>]

NoScen == [n |-> 0, onlyLogin |-> TRUE, t0 |-> 0]

NoPending == <<>>

\* c.req.json() field, undefined and "" alike falsy
Field(body, f) == IF Has(body, f) THEN body[f] ELSE <<>>

HTTPException(status, message) ==
  [hasStatus |-> TRUE, status |-> status, message |-> message]

\* Any other Error object: no status property
PlainError(message) == [hasStatus |-> FALSE, status |-> 0, message |-> message]

\* error.middlewares.ts:7-27
errorHandler(err) ==
  LET currentStatus == IF err.hasStatus THEN err.status ELSE 200
  IN [status |-> IF currentStatus # 200 THEN currentStatus ELSE 500,
      message |-> err.message]

\* routes/user.routes (lines 8-24): the handlers of each route, in order
routeHandlers(route) ==
  CASE route = "GET /users" -> <<"protect", "isAdmin", "getUsers">>
    [] route = "POST /users" -> <<"strictRateLimit", "createUser">>
    [] route = "POST /users/login" -> <<"strictRateLimit", "loginUser">>
    [] route = "GET /users/profile" -> <<"protect", "getProfile">>
    [] route = "PUT /users/profile" -> <<"protect", "editProfile">>
    [] route = "GET /users/:id" -> <<"protect", "isAdmin", "getUserById">>

\* server.ts line 89: app.use(standardRateLimit) runs before every route
appChain(route) == <<"standardRateLimit">> \o routeHandlers(route)

\* The chain of a request that both limiters admit
admittedChain(route) ==
  SelectSeq(routeHandlers(route), LAMBDA h : h # "strictRateLimit")

Stage == IF ctx.active THEN ctx.chain[ctx.pc] ELSE "idle"

Ran(name) == Append(ctx.ran, [stage |-> name, t |-> now])

\* await next()
Continue(c) ==
  /\ ctx' = [c EXCEPT !.pc = @ + 1]
  /\ resp' = resp

\* return c.json(...)
Respond(c, status, message, body) ==
  /\ resp' = [valid |-> TRUE, req |-> c.req, status |-> status,
              message |-> message, headers |-> c.headers, body |-> body,
              ran |-> c.ran]
  /\ ctx' = IdleCtx

\* throw err: app.onError(errorHandler) answers on the same context
Throw(c, err) ==
  Respond(c, errorHandler(err).status, errorHandler(err).message, <<>>)

\* Clients keep the tokens they are given, up to MaxTokens
keep(held, token) ==
  IF Cardinality(held) < MaxTokens THEN held \cup {token} ELSE held

----------------------------------------------------------------------------
(* Middleware stages *)

LimiterStage(name, o) ==
  LET r == rateLimit(o, rateLimitStore, ctx.req, ctx.headers, now)
      c == [ctx EXCEPT !.headers = r.headers, !.ran = Ran(name)]
  IN /\ Stage = name
     /\ rateLimitStore' = r.store
     /\ IF r.next THEN Continue(c)
        ELSE Throw(c, HTTPException(r.status, r.message))
     /\ UNCHANGED <<clockVars, limiterVars, dbVars, scen, pending>>

\* server.ts line 89
StandardRateLimit == LimiterStage("standardRateLimit", standardRateLimit)

\* user.routes lines 12 and 15
StrictRateLimit == LimiterStage("strictRateLimit", strictRateLimit)

\* The literal of auth.middlewares.ts:16
BearerPrefix == <<"B", "e", "a", "r", "e", "r", " ">>

\* String.prototype.startsWith
startsWith(s, p) == Len(s) >= Len(p) /\ SubSeq(s, 1, Len(p)) = p

\* auth.middlewares.ts:14-20.  An Authorization header is <<>> (absent) or
\* <<[scheme, token]>>: the characters up to and including the first
\* space, and what follows them (line 22).
hasBearer(auth) == auth # <<>> /\ startsWith(auth[1].scheme, BearerPrefix)

\* auth.middlewares.ts:14-50.  The two readings of the clock (verify's and
\* line 32) are taken in the same step.
protectOutcome(req, db, t) ==
  IF ~hasBearer(req.auth)
  THEN [user |-> <<>>,
        err |-> HTTPException(401, "Not authorized! No token provided!")]
  ELSE LET token == req.auth[1].token
       IN IF ~verify(token, JWT_SECRET, t)
          THEN [user |-> <<>>,
                err |-> HTTPException(401, "Invalid token! Not authorized!")]
          ELSE IF token.id = 0
          THEN [user |-> <<>>,
                err |-> HTTPException(401, "Invalid token payload!")]
          ELSE IF token.exp # 0 /\ token.exp < t \div 1000
          THEN [user |-> <<>>,
                err |-> HTTPException(401, "Token has expired!")]
          ELSE IF findById(db, token.id) = <<>>
          THEN [user |-> <<>>,
                err |-> HTTPException(401, "User not found!")]
          ELSE [user |-> <<hydrate(findById(db, token.id)[1], FALSE)>>,
                err |-> HTTPException(0, "")]

Protect ==
  LET r == protectOutcome(ctx.req, users, now)
      c == [ctx EXCEPT !.user = r.user, !.ran = Ran("protect")]
  IN /\ Stage = "protect"
     /\ IF r.user # <<>> THEN Continue(c) ELSE Throw(c, r.err)
     /\ UNCHANGED <<clockVars, rateLimitStore, limiterVars, dbVars, scen, pending>>

\* auth.middlewares.ts:53-67
isAdminOutcome_anyUser(c) ==
  IF c.user = <<>>
  THEN HTTPException(401, "Not authorized! No user context!")
  ELSE HTTPException(0, "")
isAdminOutcome(c) ==
  IF c.user = <<>>
  THEN HTTPException(401, "Not authorized! No user context!")
  ELSE IF c.user[1].isAdmin THEN HTTPException(0, "")
  ELSE HTTPException(403, "Not authorized as an admin!")

IsAdmin ==
  LET err == isAdminOutcome(ctx)
      c == [ctx EXCEPT !.ran = Ran("isAdmin")]
  IN /\ Stage = "isAdmin"
     /\ IF err.status = 0 THEN Continue(c) ELSE Throw(c, err)
     /\ UNCHANGED <<clockVars, rateLimitStore, limiterVars, dbVars, scen, pending>>

----------------------------------------------------------------------------
(* Controllers: controllers/user.controllers.ts.  Each outcome is          *)
(* [db, err, ok, message, body, token, pw]: the collection afterwards, the *)
(* error thrown (when ~ok), the JSON answered, the token minted (<<>> or   *)
(* <<token>>) and the password persisted (<<>> or <<[id, text]>>).         *)

Failed(db, err) ==
  [db |-> db, ok |-> FALSE, err |-> err, message |-> err.message,
   body |-> <<>>, token |-> <<>>, pw |-> <<>>]

Succeeded(db, message, body, token, pw) ==
  [db |-> db, ok |-> TRUE, err |-> HTTPException(200, ""), message |-> message,
   body |-> body, token |-> token, pw |-> pw]

\* The data object of the register and login answers (lines 68-74, 108-114)
authData(user, token) ==
  [k \in {"_id", "name", "email", "isAdmin", "token"} |->
     CASE k = "_id" -> user._id
       [] k = "name" -> user.name
       [] k = "email" -> user.email
       [] k = "isAdmin" -> user.isAdmin
       [] OTHER -> token]

\* Lines 53-58: the document User.create is given
newUser_massAssign(body) ==
  [_id |-> 0, name |-> trim(Field(body, "name")),
   email |-> normalizeEmail(Field(body, "email")),
   password |-> <<Plain(Field(body, "password"))>>,
   isAdmin |-> Has(body, "isAdmin") /\ body["isAdmin"],
   isNew |-> TRUE, modified |-> {"name", "email", "password", "isAdmin"}]
newUser(body) ==
  [_id |-> 0, name |-> trim(Field(body, "name")),
   email |-> normalizeEmail(Field(body, "email")),
   password |-> <<Plain(Field(body, "password"))>>,
   isAdmin |-> FALSE,
   isNew |-> TRUE, modified |-> {"name", "email", "password", "isAdmin"}]

\* Lines 24-50: the field tests and the lookup; ok when all pass
createUserChecks(body, db) ==
  LET name == Field(body, "name")
      email == Field(body, "email")
      password == Field(body, "password")
  IN IF name = <<>> \/ email = <<>> \/ password = <<>>
     THEN Failed(db, HTTPException(400, "Please provide name, email, and password"))
     ELSE IF ~emailRegex(email)
     THEN Failed(db, HTTPException(400, "Please provide a valid email"))
     ELSE IF Len(password) < 6
     THEN Failed(db, HTTPException(400, "Password must be at least 6 characters"))
     ELSE IF findOneByEmail(db, normalizeEmail(email), 0) # <<>>
     THEN Failed(db, HTTPException(400, "User already exists"))
     ELSE Succeeded(db, "", <<>>, <<>>, <<>>)

\* Lines 53-76: User.create and the answer
createUserWrite(body, db, t) ==
  LET r == save(db, newUser(body))
      user == r.db[Len(r.db)]
      token == genToken(user._id, t)
  IN IF r.error # "" THEN Failed(db, PlainError(r.error))
     ELSE Succeeded(r.db, "User created successfully",
                    <<authData(user, token)>>, <<token>>,
                    <<[id |-> user._id, text |-> Field(body, "password")]>>)

\* Lines 23-77, with nothing else running between the lookup and the write
createUser(body, db, t) ==
  IF ~createUserChecks(body, db).ok
  THEN createUserChecks(body, db)
  ELSE createUserWrite(body, db, t)

\* Lines 84-117
loginUser(body, db, t) ==
  LET email == Field(body, "email")
      password == Field(body, "password")
      found == findOneByEmail(db, normalizeEmail(email), 0)
  IN IF email = <<>> \/ password = <<>>
     THEN Failed(db, HTTPException(400, "Please provide an email and password"))
     ELSE IF found = <<>>
     THEN Failed(db, HTTPException(401, "No user found with this email"))
     ELSE IF ~matchPassword(hydrate(found[1], TRUE), password)
     THEN Failed(db, HTTPException(401, "Invalid credentials"))
     ELSE LET token == genToken(found[1]._id, t)
          IN Succeeded(db, "User logged in successfully",
                       <<authData(found[1], token)>>, <<token>>, <<>>)

\* Lines 12-16: User.find() with no projection
getUsers(db) ==
  Succeeded(db, "", [i \in 1..Len(db) |-> toJSON(hydrate(db[i], TRUE))],
            <<>>, <<>>)

\* Lines 124-132
getUserById(id, db) ==
  IF findById(db, id) = <<>>
  THEN Failed(db, HTTPException(404, "User not found"))
  ELSE Succeeded(db, "", <<toJSON(hydrate(findById(db, id)[1], FALSE))>>,
                 <<>>, <<>>)

\* Lines 139-143
getProfile(c, db) == Succeeded(db, "", <<toJSON(c.user[1])>>, <<>>, <<>>)

\* Lines 150-195
editProfile(c, body, db) ==
  LET user == c.user[1]
      name == Field(body, "name")
      email == Field(body, "email")
      password == Field(body, "password")
      u1 == IF email # <<>> THEN setPath(user, "email", normalizeEmail(email))
            ELSE user
      u2 == IF password # <<>> THEN setPath(u1, "password", password) ELSE u1
      u3 == IF name # <<>> THEN setPath(u2, "name", trim(name)) ELSE u2
      r == save(db, u3)
  IN IF email # <<>> /\ ~emailRegex(email)
     THEN Failed(db, HTTPException(400, "Please provide a valid email"))
     ELSE IF email # <<>>
             /\ findOneByEmail(db, normalizeEmail(email), user._id) # <<>>
     THEN Failed(db, HTTPException(400, "Email already in use"))
     ELSE IF password # <<>> /\ Len(password) < 6
     THEN Failed(db, HTTPException(400, "Password must be at least 6 characters"))
     ELSE IF r.error # "" THEN Failed(db, PlainError(r.error))
     ELSE Succeeded(r.db, "",
            <<[k \in {"_id", "name", "email", "isAdmin"} |->
                 CASE k = "_id" -> u3._id
                   [] k = "name" -> u3.name
                   [] k = "email" -> u3.email
                   [] OTHER -> u3.isAdmin]>>,
            <<>>,
            IF password # <<>> THEN <<[id |-> user._id, text |-> password]>>
            ELSE <<>>)

\* The plaintext each principal's password was last set to
notePassword(ps, pw) ==
  IF pw = <<>> THEN ps
  ELSE [i \in 1..(IF pw[1].id > Len(ps) THEN pw[1].id ELSE Len(ps)) |->
          IF i = pw[1].id THEN pw[1].text ELSE ps[i]]

\* A handler stage: the outcome is answered and its writes take effect
Handle(name, r) ==
  LET c == [ctx EXCEPT !.ran = Ran(name)]
  IN /\ Stage = name
     /\ users' = r.db
     /\ tokens' = IF r.token = <<>> THEN tokens ELSE keep(tokens, r.token[1])
     /\ pwSet' = notePassword(pwSet, r.pw)
     /\ IF r.ok THEN Respond(c, 200, r.message, r.body) ELSE Throw(c, r.err)
     /\ UNCHANGED <<clockVars, rateLimitStore, limiterVars, scen, pending>>

CreateUser == Handle("createUser", createUser(ctx.req.body, users, now))

LoginUser == Handle("loginUser", loginUser(ctx.req.body, users, now))

GetUsers == Handle("getUsers", getUsers(users))

GetUserById == Handle("getUserById", getUserById(ctx.req.param, users))

GetProfile == Handle("getProfile", getProfile(ctx, users))

EditProfile == Handle("editProfile", editProfile(ctx, ctx.req.body, users))

----------------------------------------------------------------------------
(* Request headers that identify the client *)

ClientHeaders ==
  { [xff |-> <<"10.0.0.1", "10.0.0.2">>, realIp |-> "10.0.0.9"],
    [xff |-> <<>>, realIp |-> "10.0.0.1"],
    [xff |-> <<>>, realIp |-> ""] }

----------------------------------------------------------------------------
(* Data the requests are drawn from *)

nameAl == <<" ", "A", "l">>
nameBo == <<"B", "o", " ">>
nameBlank == <<" ">>
mailUser == <<"A", "@", "b", ".", "c">>
mailUserTyped == <<" ", "a", "@", "B", ".", "c", " ">>
mailRoot == <<"r", "@", "b", ".", "c">>
mailRootUpper == <<"R", "@", "b", ".", "c">>
mailNew == <<"C", "@", "b", ".", "c">>
mailBad == <<"a", "b", ".", "c">>
mailNobody == <<"x", "@", "b", ".", "c">>
pwSecret == <<"s", "e", "c", "r", "e", "t">>
pwHunter == <<"h", "u", "n", "t", "e", "r", "2">>
pwRoot == <<"r", "o", "o", "t", "p", "w">>
pwShort == <<"a", "b", "c">>

\* An administrator exists only by direct manipulation of the datastore
SeedUsers ==
  << [_id |-> 1, name |-> <<"R", "o", "o", "t">>, email |-> mailRoot,
      password |-> passwordHash(Plain(pwRoot), 1), isAdmin |-> TRUE] >>

SeedPasswords == <<pwRoot>>

Body3(name, email, password) ==
  [k \in {"name", "email", "password"} |->
     CASE k = "name" -> name [] k = "email" -> email [] OTHER -> password]

Body2(email, password) ==
  [k \in {"email", "password"} |->
     CASE k = "email" -> email [] OTHER -> password]

Only(k, v) == [x \in {k} |-> v]

RegisterBodies ==
  { Put(Body3(nameAl, mailUser, pwSecret), "isAdmin", TRUE),
    Body3(nameAl, mailRootUpper, pwSecret),
    Body3(nameAl, mailBad, pwSecret),
    Body3(nameAl, mailNew, pwShort),
    Body2(mailNew, pwSecret),
    Body3(nameBlank, mailNew, pwSecret) }

LoginBodies ==
  { Body2(e, p) : e \in {mailUserTyped, mailRoot, mailNobody},
                  p \in {pwSecret, pwHunter, pwRoot} }
    \cup {Only("email", mailRoot)}

EditBodies ==
  { Only("name", nameBo),
    Only("email", mailRootUpper),
    Put(Body2(mailNew, pwHunter), "isAdmin", TRUE),
    Only("password", pwShort),
    Only("email", mailBad),
    Body2(mailNew, pwShort),
    Only("name", nameBlank) }

Bearer(token) == <<[scheme |-> BearerPrefix, token |-> token]>>

\* The same header with the scheme typed in lower case, and another scheme
LowerBearer(token) == <<[scheme |-> toLowerCase(BearerPrefix), token |-> token]>>

Basic(token) == <<[scheme |-> <<"B", "a", "s", "i", "c", " ">>, token |-> token]>>

Request(route, auth, body, param) ==
  [route |-> route, xff |-> <<"10.0.0.1">>, realIp |-> "", auth |-> auth,
   body |-> body, param |-> param]

\* Tokens a client can present without the server's secret: one signed
\* with another key, and held tokens with the subject rewritten.
ForgedTokens ==
  {sign(tokenClaims(1, now), "attacker-secret")}
    \cup {[tk EXCEPT !.id = 1] : tk \in tokens}

----------------------------------------------------------------------------
(* The clock *)

TickBy(steps, most) ==
  \E d \in steps :
    /\ ticks < most
    /\ d <= MaxClock - now
    /\ now' = now + d
    /\ ticks' = ticks + 1

----------------------------------------------------------------------------
(* SpecLimiter: one limiter instance, called request after request *)

LimiterConfigs ==
  {strictRateLimit} \cup {adHocLimiter(n, 1000) : n \in 0..MaxN}

NoObs ==
  [n |-> 0, key |-> "", t |-> 0, pre |-> <<>>, post |-> <<>>,
   next |-> FALSE, status |-> 0, headers |-> EmptyMap]

InitLimiter ==
  /\ now = ClockStart
  /\ ticks = 0
  /\ rateLimitStore = EmptyMap
  /\ limiter \in LimiterConfigs
  /\ obs = NoObs
  /\ win = EmptyMap
  /\ users = SeedUsers
  /\ tokens = {}
  /\ pwSet = SeedPasswords
  /\ ctx = IdleCtx
  /\ resp = NoResp
  /\ scen = NoScen
  /\ pending = NoPending

\* The ordinal of a request at time t within the window of its key: a window
\* opens with the first request that finds none open and stays open until
\* its reset time has passed.
winStep(w, key, t, windowMs) ==
  IF Has(w, key) /\ t <= w[key].until
  THEN Put(w, key, [w[key] EXCEPT !.n = @ + 1])
  ELSE Put(w, key, [n |-> 1, until |-> t + windowMs])

\* The same, remembering per key whether a request of the open window has
\* been rejected.
winReject(w, key, t, windowMs, rejected) ==
  LET s == winStep(w, key, t, windowMs)[key]
  IN Put(w, key, [n |-> s.n, until |-> s.until,
                  rej |-> rejected \/ (s.n > 1 /\ w[key].rej)])

\* The model stops sending to a key whose live entry has counted max + MaxOver.
mayCall(o, store, key, t) ==
  IF Has(store, key) /\ store[key].resetTime >= t
  THEN store[key].count < o.max + MaxOver
  ELSE TRUE

Invoke(req) ==
  LET key == limiterKey(limiter, req)
      r == rateLimit(limiter, rateLimitStore, req, EmptyMap, now)
      w == winReject(win, key, now, limiter.windowMs, ~r.next)
  IN /\ mayCall(limiter, rateLimitStore, key, now)
     /\ rateLimitStore' = r.store
     /\ win' = w
     /\ obs' = [n |-> w[key].n, key |-> key, t |-> now,
                pre |-> IF Has(rateLimitStore, key)
                        THEN <<rateLimitStore[key]>> ELSE <<>>,
                post |-> <<r.store[key]>>,
                next |-> r.next, status |-> r.status, headers |-> r.headers]
     /\ UNCHANGED <<now, ticks, limiter, dbVars, httpVars>>

TickLimiter ==
  /\ TickBy({1, limiter.windowMs}, MaxTicks)
  /\ UNCHANGED <<rateLimitStore, limiter, obs, win, dbVars, httpVars>>

NextLimiter ==
  \/ \E req \in ClientHeaders : Invoke(req)
  \/ TickLimiter

SpecLimiter == InitLimiter /\ [][NextLimiter]_vars

----------------------------------------------------------------------------
(* Requests through the application *)

InitApp ==
  /\ now = ClockStart
  /\ ticks = 0
  /\ rateLimitStore = EmptyMap
  /\ limiter = standardRateLimit
  /\ obs = NoObs
  /\ win = EmptyMap
  /\ tokens = {}
  /\ ctx = IdleCtx
  /\ resp = NoResp
  /\ scen = NoScen
  /\ pending = NoPending

Begin(req, chain) ==
  /\ ~ctx.active
  /\ ctx' = [active |-> TRUE, req |-> req, chain |-> chain, pc |-> 1,
             headers |-> EmptyMap, user |-> <<>>, ran |-> <<>>]
  /\ resp' = NoResp

TickApp(steps, most) ==
  /\ ~ctx.active
  /\ TickBy(steps, most)
  /\ UNCHANGED <<rateLimitStore, limiterVars, dbVars, httpVars>>

----------------------------------------------------------------------------
(* SpecPipeline: one client, the global limiter, the route's limiter, the  *)
(* handlers                                                                *)

PipelineRequests ==
  { Request("POST /users/login", <<>>, Body2(mailRoot, pwSecret), 0),
    Request("GET /users/profile", <<>>, EmptyMap, 0) }

ArrivePipeline(req) ==
  /\ mayCall(standardRateLimit, rateLimitStore,
             limiterKey(standardRateLimit, req), now)
  /\ "strictRateLimit" \in Range(appChain(req.route))
       => mayCall(strictRateLimit, rateLimitStore,
                  limiterKey(strictRateLimit, req), now)
  /\ Begin(req, appChain(req.route))
  /\ scen' = [n |-> IF scen.n <= 6 THEN scen.n + 1 ELSE scen.n,
              onlyLogin |-> scen.onlyLogin /\ req.route = "POST /users/login",
              t0 |-> IF scen.n = 0 THEN now ELSE scen.t0]
  /\ UNCHANGED <<clockVars, rateLimitStore, limiterVars, dbVars, pending>>

InitPipeline ==
  /\ InitApp
  /\ users = SeedUsers
  /\ pwSet = SeedPasswords

NextPipeline ==
  \/ \E req \in PipelineRequests : ArrivePipeline(req)
  \/ StandardRateLimit
  \/ StrictRateLimit
  \/ Protect
  \/ LoginUser
  \/ TickApp({1, standardRateLimit.windowMs, strictRateLimit.windowMs},
             MaxAppTicks)

SpecPipeline == InitPipeline /\ [][NextPipeline]_vars

----------------------------------------------------------------------------
(* SpecUsers: the account operations on requests both limiters admit, at   *)
(* one reading of the clock                                                *)

ArriveApi(req) ==
  /\ req.route = "POST /users" => Len(users) < MaxUsers
  /\ Begin(req, admittedChain(req.route))
  /\ UNCHANGED <<clockVars, rateLimitStore, limiterVars, dbVars, scen, pending>>

HeldAuth == {<<>>} \cup {Bearer(tk) : tk \in tokens}

UsersRequests ==
  {Request("POST /users", <<>>, b, 0) : b \in RegisterBodies}
    \cup {Request("POST /users/login", <<>>, b, 0) : b \in LoginBodies}
    \cup {Request("GET /users", a, EmptyMap, 0) : a \in HeldAuth}
    \cup {Request("GET /users/profile", a, EmptyMap, 0) : a \in HeldAuth}
    \cup {Request("PUT /users/profile", a, b, 0) :
            a \in HeldAuth, b \in EditBodies}
    \cup {Request("GET /users/:id", a, EmptyMap, i) :
            a \in HeldAuth, i \in 1..MaxUsers}

InitUsers ==
  /\ InitApp
  /\ \/ users = SeedUsers /\ pwSet = SeedPasswords
     \/ users = <<>> /\ pwSet = <<>>

NextUsers ==
  \/ \E req \in UsersRequests : ArriveApi(req)
  \/ Protect
  \/ IsAdmin
  \/ CreateUser
  \/ LoginUser
  \/ GetUsers
  \/ GetUserById
  \/ GetProfile
  \/ EditProfile

SpecUsers == InitUsers /\ [][NextUsers]_vars

----------------------------------------------------------------------------
(* SpecGate: tokens over time on requests both limiters admit *)

GateAuth == HeldAuth \cup {Bearer(tk) : tk \in ForgedTokens}

GateRequests ==
  { Request("POST /users", <<>>, Body3(nameAl, mailUser, pwSecret), 0),
    Request("POST /users/login", <<>>, Body2(mailRoot, pwRoot), 0),
    Request("POST /users/login", <<>>, Body2(mailUser, pwSecret), 0) }
    \cup {Request("GET /users", a, EmptyMap, 0) : a \in GateAuth}
    \cup {Request("GET /users/profile", a, EmptyMap, 0) : a \in GateAuth}
    \cup {Request("GET /users/:id", a, EmptyMap, i) :
            a \in GateAuth, i \in {1, MaxUsers + 1}}

InitGate ==
  /\ InitApp
  /\ users = SeedUsers
  /\ pwSet = SeedPasswords

NextGate ==
  \/ \E req \in GateRequests : ArriveApi(req)
  \/ Protect
  \/ IsAdmin
  \/ CreateUser
  \/ LoginUser
  \/ GetUsers
  \/ GetUserById
  \/ GetProfile
  \/ TickApp({1000, TokenLifetimeMs - 1000, TokenLifetimeMs}, MaxAppTicks)

SpecGate == InitGate /\ [][NextGate]_vars

----------------------------------------------------------------------------
(* SpecAuth: the Authorization header at protect.  A client still holds    *)
(* the token of an account that was since removed from the datastore.      *)

\* An _id no document of the collection has
OrphanId == MaxUsers + 1

OrphanToken == genToken(OrphanId, ClockStart)

AuthHeaders ==
  {<<>>}
    \cup {Bearer(tk) : tk \in tokens \cup ForgedTokens}
    \cup {LowerBearer(tk) : tk \in tokens}
    \cup {Basic(tk) : tk \in tokens}

AuthRequests ==
  { Request("POST /users/login", <<>>, Body2(mailRoot, pwRoot), 0) }
    \cup {Request("GET /users/profile", a, EmptyMap, 0) : a \in AuthHeaders}
    \cup {Request("PUT /users/profile", a, Only("name", nameBo), 0) :
            a \in AuthHeaders}

InitAuth ==
  /\ now = ClockStart
  /\ ticks = 0
  /\ rateLimitStore = EmptyMap
  /\ limiter = standardRateLimit
  /\ obs = NoObs
  /\ win = EmptyMap
  /\ users = SeedUsers
  /\ pwSet = SeedPasswords
  /\ tokens = {OrphanToken}
  /\ ctx = IdleCtx
  /\ resp = NoResp
  /\ scen = NoScen
  /\ pending = NoPending

NextAuth ==
  \/ \E req \in AuthRequests : ArriveApi(req)
  \/ Protect
  \/ LoginUser
  \/ GetProfile
  \/ EditProfile
  \/ TickApp({1000, TokenLifetimeMs}, MaxAppTicks)

SpecAuth == InitAuth /\ [][NextAuth]_vars

----------------------------------------------------------------------------
(* SpecRace: registrations in flight at the same time, at one reading of   *)
(* the clock (all of them inside one window).  A stage runs to             *)
(* its next await in one step: the limiter has none between reading the    *)
(* store and next() (rateLimit.middlewares.ts:48-79); createUser awaits    *)
(* User.findOne (line 47) and User.create (line 53).                       *)

Racers == 1..MaxRacers

IdleRacer == [pc |-> "idle", req |-> NoReq, status |-> 0, message |-> ""]

RaceBodies ==
  { Body3(nameAl, mailUser, pwSecret),
    Body3(nameBo, toLowerCase(mailUser), pwSecret) }

\* Per key: how many requests passed the limiter in the window that the
\* first of them opened, and how many of these were admitted
winCount(w, key, t, windowMs, admitted) ==
  IF Has(w, key) /\ t <= w[key].until
  THEN Put(w, key, [w[key] EXCEPT !.n = @ + 1,
                                  !.adm = @ + (IF admitted THEN 1 ELSE 0)])
  ELSE Put(w, key, [n |-> 1, until |-> t + windowMs,
                    adm |-> IF admitted THEN 1 ELSE 0])

Answered(s, status, message) ==
  [pending EXCEPT ![s] = [@ EXCEPT !.pc = "done", !.status = status,
                                   !.message = message]]

RaceArrive(s, req) ==
  /\ pending[s].pc \in {"idle", "done"}
  /\ mayCall(standardRateLimit, rateLimitStore,
             limiterKey(standardRateLimit, req), now)
  /\ mayCall(strictRateLimit, rateLimitStore,
             limiterKey(strictRateLimit, req), now)
  /\ pending' = [pending EXCEPT ![s] =
                   [pc |-> "standardRateLimit", req |-> req,
                    status |-> 0, message |-> ""]]
  /\ UNCHANGED <<clockVars, rateLimitStore, limiterVars, dbVars, ctx, resp,
                 scen>>

RaceLimiter(s, name, o, after) ==
  LET req == pending[s].req
      r == rateLimit(o, rateLimitStore, req, EmptyMap, now)
      err == errorHandler(HTTPException(r.status, r.message))
  IN /\ pending[s].pc = name
     /\ rateLimitStore' = r.store
     /\ win' = winCount(win, limiterKey(o, req), now, o.windowMs, r.next)
     /\ pending' = IF r.next THEN [pending EXCEPT ![s].pc = after]
                   ELSE Answered(s, err.status, err.message)
     /\ UNCHANGED <<clockVars, limiter, obs, dbVars, ctx, resp, scen>>

\* createUser up to the await of line 47
RaceFindOne(s) ==
  LET r == createUserChecks(pending[s].req.body, users)
  IN /\ pending[s].pc = "findOne"
     /\ pending' = IF r.ok THEN [pending EXCEPT ![s].pc = "create"]
                   ELSE Answered(s, errorHandler(r.err).status,
                                 errorHandler(r.err).message)
     /\ UNCHANGED <<clockVars, rateLimitStore, limiterVars, dbVars, ctx,
                    resp, scen>>

\* createUser from line 53 on
RaceCreate(s) ==
  LET r == createUserWrite(pending[s].req.body, users, now)
  IN /\ pending[s].pc = "create"
     /\ users' = r.db
     /\ tokens' = IF r.token = <<>> THEN tokens ELSE keep(tokens, r.token[1])
     /\ pwSet' = notePassword(pwSet, r.pw)
     /\ pending' = IF r.ok THEN Answered(s, 200, r.message)
                   ELSE Answered(s, errorHandler(r.err).status,
                                 errorHandler(r.err).message)
     /\ UNCHANGED <<clockVars, rateLimitStore, limiterVars, ctx, resp, scen>>

InitRace ==
  /\ now = ClockStart
  /\ ticks = 0
  /\ rateLimitStore = EmptyMap
  /\ limiter = standardRateLimit
  /\ obs = NoObs
  /\ win = EmptyMap
  /\ users = <<>>
  /\ pwSet = <<>>
  /\ tokens = {}
  /\ ctx = IdleCtx
  /\ resp = NoResp
  /\ scen = NoScen
  /\ pending = [s \in Racers |-> IdleRacer]

NextRace ==
  \/ \E s \in Racers : \E b \in RaceBodies :
       RaceArrive(s, Request("POST /users", <<>>, b, 0))
  \/ \E s \in Racers :
       RaceLimiter(s, "standardRateLimit", standardRateLimit,
                   "strictRateLimit")
  \/ \E s \in Racers :
       RaceLimiter(s, "strictRateLimit", strictRateLimit, "findOne")
  \/ \E s \in Racers : RaceFindOne(s)
  \/ \E s \in Racers : RaceCreate(s)

SpecRace == InitRace /\ [][NextRace]_vars

----------------------------------------------------------------------------
(* SpecSweep: the cleanup timer beside the traffic of the two limiters    *)
(* the application mounts.  obs holds what the last run of the timer saw: *)
(* obs.t its Date.now(), obs.pre and obs.post the store before and after. *)

SweepLimiters == {standardRateLimit, strictRateLimit}

SweepClients ==
  { [xff |-> <<>>, realIp |-> "10.0.0.1"] }

\* Line 13: setInterval is called when the module is loaded
InitSweep ==
  /\ now = ClockStart
  /\ ticks = 0
  /\ rateLimitStore = EmptyMap
  /\ limiter = standardRateLimit
  /\ obs = [NoObs EXCEPT !.key = "sweep", !.t = ClockStart]
  /\ win = EmptyMap
  /\ users = SeedUsers
  /\ tokens = {}
  /\ pwSet = SeedPasswords
  /\ ctx = IdleCtx
  /\ resp = NoResp
  /\ scen = NoScen
  /\ pending = NoPending

\* The timer is due one period after its last run.
sweepDue == now >= obs.t + SweepEveryMs

\* Lines 46-80: a request passes one of the limiters.
Hit(o, req) ==
  /\ scen.n < MaxHits
  /\ rateLimitStore' = rateLimit(o, rateLimitStore, req, EmptyMap, now).store
  /\ scen' = [scen EXCEPT !.n = @ + 1]
  /\ UNCHANGED <<now, ticks, limiterVars, dbVars, ctx, resp, pending>>

\* Lines 13-20: the timer fires and its callback runs to completion.
Sweep ==
  /\ sweepDue
  /\ rateLimitStore' = sweep(rateLimitStore, now)
  /\ obs' = [obs EXCEPT !.t = now, !.pre = <<rateLimitStore>>,
                        !.post = <<sweep(rateLimitStore, now)>>]
  /\ UNCHANGED <<now, ticks, limiter, win, dbVars, httpVars>>

\* Time passes while the store holds an entry and the timer is not due: by
\* a whole period, or (MaxLate times at most) by one millisecond.
TickSweep ==
  /\ rateLimitStore # EmptyMap
  /\ ~sweepDue
  /\ \/ /\ now' = now + SweepEveryMs
        /\ ticks' = ticks
     \/ /\ ticks < MaxLate
        /\ now' = now + 1
        /\ ticks' = ticks + 1
  /\ UNCHANGED <<rateLimitStore, limiterVars, dbVars, httpVars>>

NextSweep ==
  \/ \E o \in SweepLimiters, req \in SweepClients : Hit(o, req)
  \/ Sweep
  \/ TickSweep

\* The runtime fires a due interval timer, and the clock does not stop.
SpecSweep ==
  InitSweep /\ [][NextSweep]_vars /\ WF_vars(Sweep) /\ WF_vars(TickSweep)

----------------------------------------------------------------------------
(* SpecShared: one client registers, logs in and reads its profile; win   *)
(* counts, per client, the requests that reached the register or the      *)
(* login handler since the first of them, for as long as a strict window  *)
(* lasts.                                                                  *)

SharedRequests ==
  { Request("POST /users", <<>>, Body3(nameAl, mailNew, pwSecret), 0),
    Request("POST /users/login", <<>>, Body2(mailRoot, pwSecret), 0),
    Request("GET /users/profile", <<>>, EmptyMap, 0) }

ArriveShared(req) ==
  /\ mayCall(standardRateLimit, rateLimitStore,
             limiterKey(standardRateLimit, req), now)
  /\ "strictRateLimit" \in Range(appChain(req.route))
       => mayCall(strictRateLimit, rateLimitStore,
                  limiterKey(strictRateLimit, req), now)
  /\ Begin(req, appChain(req.route))
  /\ UNCHANGED <<clockVars, rateLimitStore, limiterVars, dbVars, scen,
                 pending>>

\* user.routes lines 12 and 15: the handler behind the strict limiter runs
Reached(name, r) ==
  LET c == [ctx EXCEPT !.ran = Ran(name)]
  IN /\ Stage = name
     /\ users' = r.db
     /\ tokens' = IF r.token = <<>> THEN tokens ELSE keep(tokens, r.token[1])
     /\ pwSet' = notePassword(pwSet, r.pw)
     /\ IF r.ok THEN Respond(c, 200, r.message, r.body) ELSE Throw(c, r.err)
     /\ win' = winCount(win, keyGenerator(ctx.req), now,
                        strictRateLimit.windowMs, TRUE)
     /\ UNCHANGED <<clockVars, rateLimitStore, limiter, obs, scen, pending>>

InitShared ==
  /\ InitApp
  /\ users = SeedUsers
  /\ pwSet = SeedPasswords

NextShared ==
  \/ \E req \in SharedRequests : ArriveShared(req)
  \/ StandardRateLimit
  \/ StrictRateLimit
  \/ Protect
  \/ Reached("createUser", createUser(ctx.req.body, users, now))
  \/ Reached("loginUser", loginUser(ctx.req.body, users, now))
  \/ TickApp({1, strictRateLimit.windowMs}, MaxAppTicks)

SpecShared == InitShared /\ [][NextShared]_vars

----------------------------------------------------------------------------
(* Claims about one limiter instance, checked under SpecLimiter *)

\* The last call was the n-th request of its key inside one window.
CalledAs(n) == obs.n = n

C2_ExpiredEntryReplaced ==
  (obs.n >= 1 /\ obs.pre # <<>> /\ obs.pre[1].resetTime < obs.t)
    => /\ obs.next
       /\ obs.post = <<[count |-> 1, resetTime |-> obs.t + limiter.windowMs]>>

\* A key whose count had passed max by rejections is admitted afresh.
C2_Witness ==
  /\ obs.pre # <<>>
  /\ obs.pre[1].count > limiter.max + 1
  /\ obs.pre[1].resetTime < obs.t
  /\ obs.next
  /\ obs.post[1].count = 1

\* The call that has just been made fell into a window its key had open.
SameWindow == Has(win, obs'.key) /\ now <= win[obs'.key].until

\* C21: a request that falls into the open window of its key leaves the
\* entry's resetTime as it was and raises its count by one, whether it is
\* admitted or rejected, so the count can pass max; and if a request of
\* that window has been rejected already, this one is rejected too.
C21_RejectedStillCounted ==
  [][ (obs' # obs /\ SameWindow)
        => /\ obs'.pre # <<>>
           /\ obs'.post[1].count = obs'.pre[1].count + 1
           /\ obs'.post[1].resetTime = obs'.pre[1].resetTime
           /\ obs'.post[1].resetTime = win[obs'.key].until
           /\ win[obs'.key].rej => (~obs'.next /\ obs'.status = 429)
    ]_vars

\* A second rejection in a row at the reset time of the window, after a
\* request of another key: the count has passed max + 1 and the reset time
\* is still the one the first request of the window set.
C21_Witness ==
  /\ limiter.max >= 1
  /\ obs.status = 429
  /\ obs.pre # <<>>
  /\ obs.pre[1].count > limiter.max
  /\ obs.post[1].count > limiter.max + 1
  /\ obs.t = obs.post[1].resetTime
  /\ \E k \in DOMAIN win : k # obs.key /\ win[k].until > win[obs.key].until

----------------------------------------------------------------------------
(* Claims about the composed pipeline, checked under SpecPipeline *)

EntryAt(store, key) == IF Has(store, key) THEN <<store[key]>> ELSE <<>>

\* The stages the last answered request ran, in order
Stages(r) == [i \in 1..Len(r.ran) |-> r.ran[i].stage]

\* C3: the strict and the standard instance never share a counter: a step
\* of one instance leaves the entry the other instance keeps for the same
\* client (count and resetTime) as it was.
C3_InstancesIsolated ==
  [][ /\ Stage = "standardRateLimit" =>
           EntryAt(rateLimitStore', limiterKey(strictRateLimit, ctx.req))
             = EntryAt(rateLimitStore, limiterKey(strictRateLimit, ctx.req))
      /\ Stage = "strictRateLimit" =>
           EntryAt(rateLimitStore', limiterKey(standardRateLimit, ctx.req))
             = EntryAt(rateLimitStore, limiterKey(standardRateLimit, ctx.req))
    ]_vars

\* The strict limiter is exhausted for the client and rejects, in a request
\* the standard limiter admitted with its own count far below its max.
C3_Witness ==
  /\ resp.valid
  /\ Stages(resp) = <<"standardRateLimit", "strictRateLimit">>
  /\ resp.status = 429
  /\ rateLimitStore[limiterKey(strictRateLimit, resp.req)].count > 5
  /\ rateLimitStore[limiterKey(standardRateLimit, resp.req)].count = 7

\* C4: a client that sends nothing but POST /users/login, 6 times within
\* 15 minutes of the first: the first 5 reach the login handler, the 6th is
\* answered 429 with a Retry-After header and the handler does not run.
C4_SixthLoginRejected ==
  (resp.valid /\ scen.onlyLogin /\ resp.ran[1].t <= scen.t0 + 15 * 60 * 1000)
    => /\ scen.n <= 5 => "loginUser" \in Range(Stages(resp))
       /\ scen.n = 6 =>
            /\ resp.status = 429
            /\ Has(resp.headers, "Retry-After")
            /\ "loginUser" \notin Range(Stages(resp))

\* The 6th login arrives later than the first, inside the 15 minutes.
C4_Witness ==
  /\ resp.valid
  /\ scen.onlyLogin
  /\ scen.n = 6
  /\ resp.ran[1].t > scen.t0
  /\ resp.ran[1].t <= scen.t0 + 15 * 60 * 1000
  /\ resp.status = 429
  /\ resp.headers["Retry-After"] > 0

----------------------------------------------------------------------------
(* Claims about tokens and the gates, checked under SpecGate *)

\* The token of the last answered request (when it carried one)
Presented == resp.req.auth[1].token

\* The epoch second at which protect handled the last answered request
ProtectSecond == resp.ran[1].t \div 1000

PassedProtect == Len(resp.ran) >= 2

\* C5: a token minted by genToken at second T has exp = T + 604800; protect
\* accepts it at every second t with T <= t < exp and answers 401 at every
\* t >= exp, t = exp included.
C5_TokenLifetime ==
  (resp.valid /\ resp.req.auth # <<>> /\ Presented \in tokens
     /\ Stages(resp)[1] = "protect")
    => /\ Presented.exp = Presented.iat + 604800
       /\ Presented.iat <= ProtectSecond
       /\ ProtectSecond < Presented.exp => PassedProtect
       /\ ProtectSecond >= Presented.exp =>
            (~PassedProtect /\ resp.status = 401)

\* A minted token is presented exactly at its exp second and is refused.
C5_Witness ==
  /\ resp.valid
  /\ resp.req.auth # <<>>
  /\ Presented \in tokens
  /\ ProtectSecond = Presented.exp
  /\ resp.status = 401

AdminRoute(route) == route \in {"GET /users", "GET /users/:id"}

AdminHandler(route) ==
  IF route = "GET /users" THEN "getUsers" ELSE "getUserById"

\* The last answered request carried a minted token that had not expired
ValidToken ==
  /\ resp.req.auth # <<>>
  /\ Presented \in tokens
  /\ ProtectSecond < Presented.exp

\* C6: on GET /users and GET /users/:id the handler runs only after protect
\* and then isAdmin have passed: no token is answered 401, a valid token of
\* a principal that is not an admin 403, and a valid token of an admin
\* reaches the handler (200 on GET /users and on an id that exists).
C6_AdminGate ==
  (resp.valid /\ AdminRoute(resp.req.route))
    => /\ AdminHandler(resp.req.route) \in Range(Stages(resp)) =>
            /\ Stages(resp) =
                 <<"protect", "isAdmin", AdminHandler(resp.req.route)>>
            /\ ValidToken
            /\ users[Presented.id].isAdmin
       /\ resp.req.auth = <<>> =>
            (resp.status = 401 /\ Stages(resp) = <<"protect">>)
       /\ (ValidToken /\ ~users[Presented.id].isAdmin) =>
            (resp.status = 403 /\ Stages(resp) = <<"protect", "isAdmin">>)
       /\ (ValidToken /\ users[Presented.id].isAdmin) =>
            /\ AdminHandler(resp.req.route) \in Range(Stages(resp))
            /\ resp.req.route = "GET /users" => resp.status = 200
            /\ (resp.req.route = "GET /users/:id"
                  /\ resp.req.param \in 1..Len(users)) => resp.status = 200

\* A registered principal that is no admin is refused the list with 403.
C6_Witness ==
  /\ resp.valid
  /\ resp.req.route = "GET /users"
  /\ ValidToken
  /\ ~users[Presented.id].isAdmin
  /\ resp.status = 403

----------------------------------------------------------------------------
(* Claims about the accounts, checked under SpecUsers *)

\* C7: whatever the request bodies carry, a principal created by
\* registration has isAdmin = false, and no operation changes the isAdmin
\* of a principal or removes one.
C7_RoleNeverSettable ==
  [][ /\ Len(users') >= Len(users)
      /\ \A i \in 1..Len(users) : users'[i].isAdmin = users[i].isAdmin
      /\ \A i \in (Len(users) + 1)..Len(users') : ~users'[i].isAdmin
    ]_vars

\* A registration whose body said isAdmin: true succeeded.
C7_Witness ==
  /\ resp.valid
  /\ resp.req.route = "POST /users"
  /\ resp.status = 200
  /\ Has(resp.req.body, "isAdmin")
  /\ resp.req.body["isAdmin"]
  /\ ~resp.body[1]["isAdmin"]
  /\ ~users[resp.body[1]["_id"]].isAdmin

\* C8: no response of any endpoint contains a principal's password hash.
\* Fails: GET /users answers User.find() unprojected.
C8_NoHashInResponse ==
  \A i \in 1..Len(resp.body) : ~Has(resp.body[i], "password")

\* C9: every stored password is bcrypt applied exactly once to the
\* plaintext the principal's password was last set to, by registration or
\* by a profile update.
C9_StoredHashedOnce ==
  /\ Len(pwSet) = Len(users)
  /\ \A i \in 1..Len(users) :
       /\ users[i].password.layers = 1
       /\ users[i].password.text = pwSet[i]

\* A profile update that supplied a password succeeded.
C9_Witness ==
  /\ resp.valid
  /\ resp.req.route = "PUT /users/profile"
  /\ resp.status = 200
  /\ Has(resp.req.body, "password")
  /\ users[resp.body[1]["_id"]].password = passwordHash(Plain(pwHunter), 2)

\* The principals the email of a login body names: one or none
Named(email) ==
  {i \in 1..Len(users) : users[i].email = normalizeEmail(email)}

\* C10: a login that supplies an email and a password is answered 200 with
\* a token exactly when the password is the one last set for the principal
\* of that email; another password is answered 401 'Invalid credentials',
\* an email of no principal 401 'No user found with this email'.
C10_LoginIffLastPassword ==
  LET email == Field(resp.req.body, "email")
      password == Field(resp.req.body, "password")
  IN (resp.valid /\ resp.req.route = "POST /users/login"
        /\ email # <<>> /\ password # <<>>)
       => /\ Named(email) = {} =>
               /\ resp.status = 401
               /\ resp.message = "No user found with this email"
          /\ \A i \in Named(email) :
               /\ (resp.status = 200) <=> (password = pwSet[i])
               /\ resp.status = 200 =>
                    (Len(resp.body) = 1 /\ resp.body[1]["_id"] = i
                       /\ resp.body[1]["token"] = genToken(i, resp.ran[1].t))
               /\ password # pwSet[i] =>
                    /\ resp.status = 401
                    /\ resp.message = "Invalid credentials"

\* A principal logs in with the password a profile update gave it.
C10_Witness ==
  /\ resp.valid
  /\ resp.req.route = "POST /users/login"
  /\ resp.status = 200
  /\ Field(resp.req.body, "password") = pwHunter

----------------------------------------------------------------------------
(* More claims about the accounts, checked under SpecUsers *)

\* An email as the claims compare it: lower-cased and trimmed
Canon(e) == trimEnd(trimStart([i \in 1..Len(e) |-> lowerChar(e[i])]))

\* The principals of db that hold email e
HeldBy(db, e) == {i \in 1..Len(db) : Canon(db[i].email) = Canon(e)}

\* No two principals of db hold the same email
Distinct(db) ==
  \A i, j \in 1..Len(db) : (i < j) => Canon(db[i].email) # Canon(db[j].email)

\* A registration body that passes the controller's own field tests
WellFormed(body) ==
  /\ Field(body, "name") # <<>>
  /\ Field(body, "email") # <<>>
  /\ Field(body, "password") # <<>>
  /\ emailRegex(Field(body, "email"))
  /\ Len(Field(body, "password")) >= 6

\* C11: no two principals ever hold the same email, compared after
\* trimming and lower-casing; a registration of an email that is held is
\* answered 400 'User already exists' and creates nothing; a profile update
\* to an email another principal holds is answered 400 'Email already in
\* use'.
C11_EmailUnique ==
  /\ Distinct(users)
  /\ [][ /\ users' # users => Distinct(users')
         /\ (Stage = "createUser" /\ WellFormed(ctx.req.body)
               /\ HeldBy(users, Field(ctx.req.body, "email")) # {})
              => /\ resp'.status = 400
                 /\ resp'.message = "User already exists"
                 /\ users' = users
         /\ (Stage = "editProfile" /\ Field(ctx.req.body, "email") # <<>>
               /\ emailRegex(Field(ctx.req.body, "email"))
               /\ HeldBy(users, Field(ctx.req.body, "email"))
                    \ {ctx.user[1]._id} # {})
              => /\ resp'.status = 400
                 /\ resp'.message = "Email already in use"
                 /\ users' = users
       ]_vars

\* A principal asks for the email of another, typed in another case.
C11_Witness ==
  /\ resp.valid
  /\ resp.req.route = "PUT /users/profile"
  /\ resp.status = 400
  /\ resp.message = "Email already in use"
  /\ Field(resp.req.body, "email") # users[1].email
  /\ Canon(Field(resp.req.body, "email")) = users[1].email

----------------------------------------------------------------------------
(* Claims about the Authorization header, checked under SpecAuth *)

\* What protect answers now to a header
ProtectAnswer(a) ==
  protectOutcome(Request("GET /users/profile", a, EmptyMap, 0), users, now)

\* C12: every token failure in protect gives the same 401 and the same
\* message: whenever protect has refused a token, any other token it would
\* refuse now is refused with that status and that message.
\* Fails: 'Invalid token! Not authorized!' against 'User not found!'.
C12_UniformFailure ==
  (resp.valid /\ Stages(resp) = <<"protect">> /\ hasBearer(resp.req.auth))
    => \A tk \in tokens \cup ForgedTokens :
         ProtectAnswer(Bearer(tk)).user = <<>>
           => /\ ProtectAnswer(Bearer(tk)).err.status = resp.status
              /\ ProtectAnswer(Bearer(tk)).err.message = resp.message

\* C13: protect refuses at the header test, before any verification,
\* exactly when the header is missing or does not start with 'Bearer '
\* compared without regard to case.
\* Fails: startsWith('Bearer ') is case-sensitive.
C13_SchemeCaseInsensitive ==
  (resp.valid /\ Stages(resp)[1] = "protect")
    => ( ( /\ Stages(resp) = <<"protect">>
           /\ resp.status = 401
           /\ resp.message = "Not authorized! No token provided!" )
         <=> ( \/ resp.req.auth = <<>>
               \/ ~startsWith(toLowerCase(resp.req.auth[1].scheme),
                              toLowerCase(BearerPrefix)) ) )

\* C20: a stage after protect runs only with c.user bound to the principal
\* stored under the token's subject; a minted, unexpired token whose
\* subject has no principal is answered 401 and nothing after protect runs.
C20_UserBoundBeforeNext ==
  /\ (ctx.active /\ "protect" \in Range(Stages(ctx)))
       => /\ ctx.req.auth # <<>>
          /\ ctx.req.auth[1].token.id \in 1..Len(users)
          /\ ctx.user =
               <<hydrate(users[ctx.req.auth[1].token.id], FALSE)>>
  /\ (resp.valid /\ Stages(resp)[1] = "protect" /\ Len(resp.ran) >= 2)
       => Presented.id \in 1..Len(users)
  /\ (resp.valid /\ Stages(resp)[1] = "protect" /\ hasBearer(resp.req.auth)
        /\ Presented \in tokens /\ ProtectSecond < Presented.exp
        /\ Presented.id \notin 1..Len(users))
       => (resp.status = 401 /\ Stages(resp) = <<"protect">>)

\* The token of the removed account is presented in its lifetime and is
\* refused, after a profile update went through protect.
C20_Witness ==
  /\ resp.valid
  /\ hasBearer(resp.req.auth)
  /\ Presented = OrphanToken
  /\ ProtectSecond < Presented.exp
  /\ resp.status = 401
  /\ resp.message = "User not found!"
  /\ users[1].name = trim(nameBo)

----------------------------------------------------------------------------
(* The headers of one limiter instance, checked under SpecLimiter *)

\* h is the least integer with h * d >= x
IsCeil(h, x, d) == h * d >= x /\ (h - 1) * d < x

\* C14: an admitted request carries X-RateLimit-Limit = max,
\* X-RateLimit-Remaining = max(0, max - count) with the count that includes
\* this request, and X-RateLimit-Reset = ceil(resetTime / 1000); a rejected
\* request carries Remaining = 0 and Retry-After =
\* ceil((resetTime - now) / 1000), which is never negative and never more
\* than ceil(windowMs / 1000).
C14_Headers ==
  obs.n >= 1 =>
    IF obs.next
    THEN /\ obs.headers["X-RateLimit-Limit"] = limiter.max
         /\ obs.post[1].count =
              (IF obs.pre = <<>> \/ obs.pre[1].resetTime < obs.t
               THEN 1 ELSE obs.pre[1].count + 1)
         /\ obs.headers["X-RateLimit-Remaining"] =
              (IF limiter.max - obs.post[1].count > 0
               THEN limiter.max - obs.post[1].count ELSE 0)
         /\ IsCeil(obs.headers["X-RateLimit-Reset"],
                   obs.post[1].resetTime, 1000)
    ELSE /\ obs.headers["X-RateLimit-Remaining"] = 0
         /\ IsCeil(obs.headers["Retry-After"],
                   obs.post[1].resetTime - obs.t, 1000)
         /\ obs.headers["Retry-After"] >= 0
         /\ (obs.headers["Retry-After"] - 1) * 1000 < limiter.windowMs

\* A request is rejected when what is left of its window is no whole number
\* of seconds: Retry-After is rounded up.
C14_Witness ==
  /\ obs.n >= 1
  /\ ~obs.next
  /\ (obs.post[1].resetTime - obs.t) % 1000 # 0
  /\ obs.headers["Retry-After"] * 1000 > obs.post[1].resetTime - obs.t

----------------------------------------------------------------------------
(* Failed writes and untouched credentials, checked under SpecUsers *)

\* C15: a registration or a profile update that fails validation is
\* answered 400 and changes nothing: no principal, no token, and none of a
\* profile's name, email or password.
\* Fails: a name of white space only is answered 500.
C15_ValidationFailure400 ==
  [][ (Stage \in {"createUser", "editProfile"} /\ resp'.status # 200)
        => /\ resp'.status = 400
           /\ users' = users
           /\ tokens' = tokens
           /\ pwSet' = pwSet
    ]_vars

\* C19: a profile update that supplies no password leaves every stored
\* credential as it was, and the password that logs the principal in; a
\* stored credential changes only in a profile update of that principal
\* that supplies a password.
C19_PasswordUntouched ==
  [][ /\ (Stage = "editProfile" /\ Field(ctx.req.body, "password") = <<>>)
           => /\ \A i \in 1..Len(users) :
                   users'[i].password = users[i].password
              /\ pwSet' = pwSet
      /\ \A i \in 1..Len(users) :
           users'[i].password # users[i].password
             => /\ Stage = "editProfile"
                /\ Field(ctx.req.body, "password") # <<>>
                /\ i = ctx.user[1]._id
    ]_vars

\* A principal logs in with its first password after a profile update that
\* changed its name and supplied no password.
C19_Witness ==
  /\ resp.valid
  /\ resp.req.route = "POST /users/login"
  /\ resp.status = 200
  /\ users[resp.body[1]["_id"]].name = trim(nameBo)
  /\ users[resp.body[1]["_id"]].password.salt = 1

----------------------------------------------------------------------------
(* Claims about requests in flight together, checked under SpecRace *)

RaceClient == Request("POST /users", <<>>, EmptyMap, 0)

\* C16: however the requests of one key interleave, no increment is lost:
\* when k of them have passed the limiter inside one window the entry's
\* count is k, and at most max of them were admitted.
C16_NoLostIncrement ==
  \A o \in {standardRateLimit, strictRateLimit} :
    Has(win, limiterKey(o, RaceClient))
      => /\ Has(rateLimitStore, limiterKey(o, RaceClient))
         /\ rateLimitStore[limiterKey(o, RaceClient)].count
              = win[limiterKey(o, RaceClient)].n
         /\ rateLimitStore[limiterKey(o, RaceClient)].resetTime
              = win[limiterKey(o, RaceClient)].until
         /\ win[limiterKey(o, RaceClient)].adm <= o.max

\* Two requests are past the strict limiter and not yet answered while a
\* later one of the same window has been rejected.
C16_Witness ==
  /\ Has(win, limiterKey(strictRateLimit, RaceClient))
  /\ win[limiterKey(strictRateLimit, RaceClient)].n = 6
  /\ win[limiterKey(strictRateLimit, RaceClient)].adm = 5
  /\ \E s \in Racers : pending[s].pc = "done" /\ pending[s].status = 429
  /\ \E s \in Racers : pending[s].pc \in {"findOne", "create"}

\* C17: of registrations of one email in flight together at most one
\* creates a principal, and each of the others is answered 400.
\* Fails: the one that loses at the unique index is answered 500.
C17_LoserGets400 ==
  /\ \A i, j \in 1..Len(users) :
       Canon(users[i].email) = Canon(users[j].email) => i = j
  /\ \A s \in Racers :
       (pending[s].pc = "done" /\ pending[s].status \notin {200, 429})
         => pending[s].status = 400


----------------------------------------------------------------------------
(* Claims about the cleanup timer, checked under SpecSweep *)

SweepKeys ==
  {limiterKey(o, req) : o \in SweepLimiters, req \in SweepClients}

\* A step of the cleanup timer
Swept == obs'.t # obs.t

\* C18: a run of the cleanup timer removes every entry the request path
\* would treat as expired at that instant and keeps every other entry as it
\* was; and, the timer being fair, every entry in the store is removed in
\* the end once its key gets no more traffic.
C18_SweepExpiredOnly ==
  /\ [][Swept =>
          /\ \A k \in DOMAIN rateLimitStore :
               isExpired(rateLimitStore[k], now) <=> ~Has(rateLimitStore', k)
          /\ \A k \in DOMAIN rateLimitStore' :
               /\ Has(rateLimitStore, k)
               /\ rateLimitStore'[k] = rateLimitStore[k]]_vars
  /\ \A k \in SweepKeys : Has(rateLimitStore, k) ~> ~Has(rateLimitStore, k)

\* The timer has just run exactly at the reset time of one entry, which it
\* kept, and removed another entry, which had expired.
C18_Witness ==
  /\ obs.t = now
  /\ obs.post = <<rateLimitStore>>
  /\ \E k \in DOMAIN rateLimitStore : rateLimitStore[k].resetTime = now
  /\ \E k \in DOMAIN obs.pre[1] : ~Has(rateLimitStore, k)

----------------------------------------------------------------------------
(* Claims about the strict counter of a client, checked under SpecShared *)

\* The key of the strict limiter's entry for a client
StrictKey(client) == strictRateLimit.keyPrefix \o ":" \o client

\* C22: of the requests of one client, at most 5 reach the register or the
\* login handler, taken together, within one window of the strict limiter,
\* which is the window of the one entry the strict limiter keeps for the
\* client (between requests the entry's resetTime is the end of the window
\* and its count is no less than their number); and a request the standard limiter rejects ends there and
\* leaves that entry as it was.
C22_SharedStrictCounter ==
  [][ /\ \A k \in DOMAIN win' :
           /\ win'[k].adm <= 5
           /\ ~ctx'.active =>
                /\ Has(rateLimitStore', StrictKey(k))
                /\ rateLimitStore'[StrictKey(k)].resetTime = win'[k].until
                /\ rateLimitStore'[StrictKey(k)].count >= win'[k].adm
      /\ (Stage = "standardRateLimit" /\ resp'.status = 429)
           => /\ ~ctx'.active
              /\ resp'.ran = <<[stage |-> "standardRateLimit", t |-> now]>>
              /\ EntryAt(rateLimitStore', StrictKey(keyGenerator(ctx.req)))
                   = EntryAt(rateLimitStore, StrictKey(keyGenerator(ctx.req)))
    ]_vars

\* Registrations and logins have used up the 5 of the window; the next
\* registration, still inside the window, is the 61st request of the
\* client's minute: the standard limiter rejects it and the strict entry
\* still counts 5.
C22_Witness ==
  /\ resp.valid
  /\ resp.req.route = "POST /users"
  /\ resp.status = 429
  /\ Stages(resp) = <<"standardRateLimit">>
  /\ Len(users) = Len(SeedUsers) + 1
  /\ Has(win, keyGenerator(resp.req))
  /\ win[keyGenerator(resp.req)].adm = 5
  /\ now <= win[keyGenerator(resp.req)].until
  /\ rateLimitStore[StrictKey(keyGenerator(resp.req))].count = 5
=============================================================================
